---- MODULE Spec2Model ----
(***************************************************************************)
(* Model of contract.py: the Contract hierarchy (MTMContract,              *)
(* TermContract, PrepaidContract) driven month by month.                   *)
(*                                                                         *)
(* Money is kept in thousandths of a currency unit so that every rate and  *)
(* fee of contract.py is an integer: 0.025 -> 25, 0.05 -> 50, 0.1 -> 100,  *)
(* 20.00 -> 20000, 50.00 -> 50000, 300.00 -> 300000, -10 -> -10000,        *)
(* 25 -> 25000.                                                            *)
(*                                                                         *)
(* One contract object is modelled.  `self` is the object (a record whose  *)
(* fields are the attributes its class sets in __init__), `bills` is the   *)
(* heap of Bill objects the driver has created, and self.bill is a         *)
(* reference into it (0 is Python's None).  `advanced` lists the (month,   *)
(* year) arguments of the new_month calls so far, `calls` the durations of *)
(* the calls billed since the last new_month, `ncalls` the number of calls *)
(* billed so far, `initial` the balance the PrepaidContract was            *)
(* constructed with and `last` the last operation.  `loop` is the state of *)
(* the top-up loop of PrepaidContract.new_month when it is run statement   *)
(* by statement (LoopSpec); under Spec the loop runs inside new_month and   *)
(* `loop` stays idle.                                                      *)
(***************************************************************************)
EXTENDS Integers, Sequences, FiniteSets

VARIABLES kind, self, bills, advanced, calls, ncalls, initial, last, loop

vars == <<kind, self, bills, advanced, calls, ncalls, initial, last, loop>>

(* ---------------------------- bounds ---------------------------------- *)
MaxMonths == 2
MaxCalls == 2
\* largest starting balance of the top-up loop, in steps of 2.50
MaxBalance == 24

(* --------------------- constants of contract.py ------------------------ *)
MTM_MONTHLY_FEE == 50000
TERM_MONTHLY_FEE == 20000
TERM_DEPOSIT == 300000
TERM_MINS == 100
MTM_MINS_COST == 50
TERM_MINS_COST == 100
PREPAID_MINS_COST == 25
TOPUP_LIMIT == -10000
TOPUP_AMOUNT == 25000

(* ------------------------------ inputs --------------------------------- *)
Date(y, m, d) == [year |-> y, month |-> m, day |-> d]
NoneDate == Date(0, 0, 0)

Kinds == {"MTM", "TERM", "PREPAID"}
Months == {1, 2}
Years == {2023, 2024}
StartDates == {Date(2023, 1, 15), Date(2023, 2, 1)}
\* start of the contracts that never read it (MTMContract, PrepaidContract)
FirstStart == Date(2023, 1, 15)
FinishDates == {Date(2023, 2, 15), Date(2024, 1, 1)}
Balances == {0, 10000, 30000}
Durations == {0, 61, 3000, 7200, 60000}

(* datetime.date ordering: self.point <= self.finish *)
DateLE(a, b) ==
    \/ a.year < b.year
    \/ a.year = b.year /\ a.month < b.month
    \/ a.year = b.year /\ a.month = b.month /\ a.day <= b.day

\* slip: round(call.duration / 60.0), to the nearest minute
ceil60_nearest(duration) == (duration + 30) \div 60

(* math.ceil(call.duration / 60.0) for a duration in whole seconds *)
ceil60(duration) ==
    IF duration % 60 = 0 THEN duration \div 60 ELSE (duration \div 60) + 1

(* ------------------------- Bill (collaborator) ------------------------- *)
NewBill ==
    [type |-> "", min_rate |-> 0, billed_min |-> 0, free_min |-> 0,
     fixed_cost |-> 0, fixed_log |-> <<>>]

set_rates(b, label, rate) == [b EXCEPT !.type = label, !.min_rate = rate]

add_fixed_cost(b, amount) ==
    [b EXCEPT !.fixed_cost = @ + amount, !.fixed_log = Append(@, amount)]

add_billed_minutes(b, n) == [b EXCEPT !.billed_min = @ + n]

add_free_minutes(b, n) == [b EXCEPT !.free_min = @ + n]

get_cost(b) == b.fixed_cost + b.min_rate * b.billed_min

(* ------------------------------ Contract ------------------------------- *)
Contract_init(start) == [start |-> start, bill |-> 0]

\* slip: whole minutes only, call.duration // 60
Contract_bill_call_floor(s, b, duration) ==
    [self |-> s, bill |-> add_billed_minutes(b, duration \div 60)]

\* self.bill.add_billed_minutes(ceil(call.duration / 60.0))
Contract_bill_call(s, b, duration) ==
    [self |-> s, bill |-> add_billed_minutes(b, ceil60(duration))]

\* slip: start is not cleared
Contract_cancel_contract_keepstart(s, b) == [self |-> s, ret |-> get_cost(b)]

\* self.start = None ; return self.bill.get_cost()
Contract_cancel_contract(s, b) ==
    [self |-> [s EXCEPT !.start = NoneDate], ret |-> get_cost(b)]

(* ----------------------------- MTMContract ----------------------------- *)
MTMContract_init(start) ==
    [start |-> start, bill |-> 0, finish |-> NoneDate]

\* slip: the bill is bound only while self.bill is None
MTMContract_new_month_bindonce(s, month, year, b, ref) ==
    LET b1 == set_rates(b, "MTM", MTM_MINS_COST)
        b2 == add_fixed_cost(b1, MTM_MONTHLY_FEE)
    IN  [self |-> [s EXCEPT !.bill = IF s.bill = 0 THEN ref ELSE s.bill],
         bill |-> b2]

MTMContract_new_month(s, month, year, b, ref) ==
    LET b1 == set_rates(b, "MTM", MTM_MINS_COST)
        b2 == add_fixed_cost(b1, MTM_MONTHLY_FEE)
    IN  [self |-> [s EXCEPT !.bill = ref], bill |-> b2]

(* ----------------------------- TermContract ---------------------------- *)
TermContract_init(start, end) ==
    [start |-> start, bill |-> 0, finish |-> end,
     freebies |-> TERM_MINS, point |-> start]

\* slip: the deposit test compares the month and forgets the year
TermContract_new_month_anyyear(s, month, year, b, ref) ==
    LET b1 == set_rates(b, "TERM", TERM_MINS_COST)
        b2 == add_fixed_cost(b1, TERM_MONTHLY_FEE)
        b3 == IF month = s.start.month
              THEN add_fixed_cost(b2, TERM_DEPOSIT)
              ELSE b2
    IN  [self |-> [s EXCEPT !.point = Date(year, month, 1), !.bill = ref],
         bill |-> b3]

\* slip: the deposit is added every month
TermContract_new_month_always(s, month, year, b, ref) ==
    LET b1 == set_rates(b, "TERM", TERM_MINS_COST)
        b2 == add_fixed_cost(b1, TERM_MONTHLY_FEE)
        b3 == add_fixed_cost(b2, TERM_DEPOSIT)
    IN  [self |-> [s EXCEPT !.point = Date(year, month, 1), !.bill = ref],
         bill |-> b3]

\* slip: point is set to the 28th of the month, not the first day
TermContract_new_month_lastday(s, month, year, b, ref) ==
    LET b1 == set_rates(b, "TERM", TERM_MINS_COST)
        b2 == add_fixed_cost(b1, TERM_MONTHLY_FEE)
        b3 == IF month = s.start.month
              THEN IF year = s.start.year
                   THEN add_fixed_cost(b2, TERM_DEPOSIT)
                   ELSE b2
              ELSE b2
    IN  [self |-> [s EXCEPT !.point = Date(year, month, 28), !.bill = ref],
         bill |-> b3]

TermContract_new_month(s, month, year, b, ref) ==
    LET b1 == set_rates(b, "TERM", TERM_MINS_COST)
        b2 == add_fixed_cost(b1, TERM_MONTHLY_FEE)
        b3 == IF month = s.start.month
              THEN IF year = s.start.year
                   THEN add_fixed_cost(b2, TERM_DEPOSIT)
                   ELSE b2
              ELSE b2
    IN  [self |-> [s EXCEPT !.point = Date(year, month, 1), !.bill = ref],
         bill |-> b3]

\* slip: the partial branch bills mn minus the old freebies but still
\* records the zeroed freebies as free minutes
TermContract_bill_call_dropfree(s, b, duration) ==
    LET mn == ceil60(duration)
    IN  IF 0 < s.freebies /\ s.freebies < mn
        THEN LET s1 == [s EXCEPT !.freebies = 0]
                 b1 == add_free_minutes(b, s1.freebies)
                 b2 == add_billed_minutes(b1, mn - s.freebies)
             IN  [self |-> s1, bill |-> b2]
        ELSE IF s.freebies >= mn
        THEN [self |-> [s EXCEPT !.freebies = @ - mn],
              bill |-> add_free_minutes(b, mn)]
        ELSE [self |-> s, bill |-> add_billed_minutes(b, mn)]

\* slip: elif self.freebies > mn
TermContract_bill_call_gt(s, b, duration) ==
    LET mn == ceil60(duration)
    IN  IF 0 < s.freebies /\ s.freebies < mn
        THEN LET s1 == [s EXCEPT !.freebies = 0]
                 b1 == add_free_minutes(b, s1.freebies)
                 b2 == add_billed_minutes(b1, mn - s1.freebies)
             IN  [self |-> s1, bill |-> b2]
        ELSE IF s.freebies > mn
        THEN [self |-> [s EXCEPT !.freebies = @ - mn],
              bill |-> add_free_minutes(b, mn)]
        ELSE [self |-> s, bill |-> add_billed_minutes(b, mn)]

\* slip: the partial branch is missing, any remaining freebies cover the call
TermContract_bill_call_nofloor(s, b, duration) ==
    LET mn == ceil60(duration)
    IN  IF s.freebies > 0
        THEN [self |-> [s EXCEPT !.freebies = @ - mn],
              bill |-> add_free_minutes(b, mn)]
        ELSE [self |-> s, bill |-> add_billed_minutes(b, mn)]

TermContract_bill_call(s, b, duration) ==
    LET mn == ceil60(duration)
    IN  IF 0 < s.freebies /\ s.freebies < mn
        THEN LET s1 == [s EXCEPT !.freebies = 0]
                 b1 == add_free_minutes(b, s1.freebies)
                 b2 == add_billed_minutes(b1, mn - s1.freebies)
             IN  [self |-> s1, bill |-> b2]
        ELSE IF s.freebies >= mn
        THEN [self |-> [s EXCEPT !.freebies = @ - mn],
              bill |-> add_free_minutes(b, mn)]
        ELSE [self |-> s, bill |-> add_billed_minutes(b, mn)]

\* slip: self.point < self.finish
TermContract_cancel_contract_strict(s, b) ==
    LET s1 == [s EXCEPT !.start = NoneDate]
    IN  IF DateLE(s1.point, s1.finish) /\ s1.point # s1.finish
        THEN [self |-> s1, ret |-> get_cost(b)]
        ELSE [self |-> s1, ret |-> get_cost(b) - TERM_DEPOSIT]

TermContract_cancel_contract(s, b) ==
    LET s1 == [s EXCEPT !.start = NoneDate]
    IN  IF DateLE(s1.point, s1.finish)
        THEN [self |-> s1, ret |-> get_cost(b)]
        ELSE [self |-> s1, ret |-> get_cost(b) - TERM_DEPOSIT]

(* ---------------------------- PrepaidContract -------------------------- *)
PrepaidContract_init(start, balance) ==
    [start |-> start, bill |-> 0, bal |-> 0 - balance, finish |-> NoneDate]

\* slip: `if` for `while`, a single top-up
TopUp_once(bal) ==
    IF ~(bal <= TOPUP_LIMIT) THEN bal - TOPUP_AMOUNT ELSE bal

\* while not self.bal <= -10: self.bal -= 25
RECURSIVE TopUp(_)
TopUp(bal) ==
    IF ~(bal <= TOPUP_LIMIT) THEN TopUp(bal - TOPUP_AMOUNT) ELSE bal

\* slip: the carry-forward is left out, the stored balance is kept
CarryForward_never(s, heap) == s.bal

\* try: self.bal = self.bill.get_cost()  except AttributeError: pass
CarryForward(s, heap) ==
    IF s.bill = 0 THEN s.bal ELSE get_cost(heap[s.bill])

PrepaidContract_new_month(s, month, year, b, ref, heap) ==
    LET b1 == set_rates(b, "PREPAID", PREPAID_MINS_COST)
        bal1 == CarryForward(s, heap)
        bal2 == TopUp(bal1)
        b2 == add_fixed_cost(b1, bal2)
    IN  [self |-> [s EXCEPT !.bal = bal2, !.bill = ref], bill |-> b2]

\* slip: the override is missing, Contract.cancel_contract runs
PrepaidContract_cancel_contract_base(s, b) ==
    [self |-> [s EXCEPT !.start = NoneDate], ret |-> get_cost(b)]

\* slip: the forfeited credit is also wiped from the stored balance
PrepaidContract_cancel_contract_wipe(s, b) ==
    LET s1 == [s EXCEPT !.start = NoneDate]
    IN  IF get_cost(b) <= 0
        THEN [self |-> [s1 EXCEPT !.bal = 0], ret |-> 0]
        ELSE [self |-> s1, ret |-> get_cost(b)]

PrepaidContract_cancel_contract(s, b) ==
    LET s1 == [s EXCEPT !.start = NoneDate]
    IN  IF get_cost(b) <= 0
        THEN [self |-> s1, ret |-> 0]
        ELSE [self |-> s1, ret |-> get_cost(b)]

(* ------------------------------ the driver ----------------------------- *)
NoOp == [op |-> "init", month |-> 0, year |-> 0, duration |-> 0, ret |-> 0]

IdleLoop == [pc |-> "idle", start |-> 0, bal |-> 0, k |-> 0]

Init ==
    /\ kind \in Kinds
    /\ \/ /\ kind = "MTM"
          /\ self = MTMContract_init(FirstStart)
          /\ initial = 0
       \/ /\ kind = "TERM"
          /\ \E st \in StartDates, en \in FinishDates :
               self = TermContract_init(st, en)
          /\ initial = 0
       \/ /\ kind = "PREPAID"
          /\ \E bl \in Balances :
               /\ self = PrepaidContract_init(FirstStart, bl)
               /\ initial = bl
    /\ bills = <<>>
    /\ advanced = <<>>
    /\ calls = <<>>
    /\ ncalls = 0
    /\ last = NoOp
    /\ loop = IdleLoop

\* the contract has not been cancelled (start is cleared by cancel_contract)
Live == self.start # NoneDate

\* the driver creates a fresh Bill and advances the contract to it
Advance(r, month, year) ==
    /\ self' = r.self
    /\ bills' = Append(bills, r.bill)
    /\ advanced' = Append(advanced, [month |-> month, year |-> year])
    /\ calls' = <<>>
    /\ last' = [NoOp EXCEPT !.op = "new_month", !.month = month, !.year = year]
    /\ UNCHANGED <<kind, ncalls, initial, loop>>

CanAdvance == Live /\ Len(bills) < MaxMonths

MTM_new_month ==
    /\ kind = "MTM" /\ CanAdvance
    /\ \E month \in Months, year \in Years :
         Advance(MTMContract_new_month(self, month, year, NewBill,
                                       Len(bills) + 1), month, year)

Term_new_month ==
    /\ kind = "TERM" /\ CanAdvance
    /\ \E month \in Months, year \in Years :
         Advance(TermContract_new_month(self, month, year, NewBill,
                                        Len(bills) + 1), month, year)

Prepaid_new_month ==
    /\ kind = "PREPAID" /\ CanAdvance
    /\ \E month \in Months, year \in Years :
         Advance(PrepaidContract_new_month(self, month, year, NewBill,
                                           Len(bills) + 1, bills),
                 month, year)

\* a call of the active month is billed to the active bill
Billed(r, duration) ==
    /\ self' = r.self
    /\ bills' = [bills EXCEPT ![self.bill] = r.bill]
    /\ calls' = Append(calls, duration)
    /\ ncalls' = ncalls + 1
    /\ last' = [NoOp EXCEPT !.op = "bill_call", !.duration = duration]
    /\ UNCHANGED <<kind, advanced, initial, loop>>

CanBill == Live /\ self.bill # 0 /\ ncalls < MaxCalls

Base_bill_call ==
    /\ kind \in {"MTM", "PREPAID"} /\ CanBill
    /\ \E duration \in Durations :
         Billed(Contract_bill_call(self, bills[self.bill], duration),
                duration)

Term_bill_call ==
    /\ kind = "TERM" /\ CanBill
    /\ \E duration \in Durations :
         Billed(TermContract_bill_call(self, bills[self.bill], duration),
                duration)

Cancelled(r) ==
    /\ self' = r.self
    /\ last' = [NoOp EXCEPT !.op = "cancel_contract", !.ret = r.ret]
    /\ UNCHANGED <<kind, bills, advanced, calls, ncalls, initial, loop>>

CanCancel == self.bill # 0

MTM_cancel_contract ==
    /\ kind = "MTM" /\ CanCancel
    /\ Cancelled(Contract_cancel_contract(self, bills[self.bill]))

Term_cancel_contract ==
    /\ kind = "TERM" /\ CanCancel
    /\ Cancelled(TermContract_cancel_contract(self, bills[self.bill]))

Prepaid_cancel_contract ==
    /\ kind = "PREPAID" /\ CanCancel
    /\ Cancelled(PrepaidContract_cancel_contract(self, bills[self.bill]))

Next ==
    \/ MTM_new_month
    \/ Term_new_month
    \/ Prepaid_new_month
    \/ Base_bill_call
    \/ Term_bill_call
    \/ MTM_cancel_contract
    \/ Term_cancel_contract
    \/ Prepaid_cancel_contract

Spec == Init /\ [][Next]_vars

TypeOK ==
    /\ kind \in Kinds
    /\ self.bill \in 0..Len(bills)
    /\ Len(bills) <= MaxMonths
    /\ Len(advanced) = Len(bills)
    /\ Len(calls) <= ncalls
    /\ ncalls <= MaxCalls

(* ------------- the top-up loop, statement by statement ----------------- *)
\* starting balances of the loop: the carried balance, debt or credit
LoopBalances == {u * 2500 : u \in (0 - MaxBalance)..MaxBalance}

\* slip: while not self.bal < -10
NeedsTopUp_lt(bal) == ~(bal < TOPUP_LIMIT)

\* the loop test: not self.bal <= -10
NeedsTopUp(bal) == ~(bal <= TOPUP_LIMIT)

LoopInit ==
    /\ kind = "PREPAID"
    /\ self = PrepaidContract_init(FirstStart, 0)
    /\ initial = 0
    /\ bills = <<>>
    /\ advanced = <<>>
    /\ calls = <<>>
    /\ ncalls = 0
    /\ last = NoOp
    /\ \E b \in LoopBalances :
         loop = [pc |-> "while", start |-> b, bal |-> b, k |-> 0]

\* self.bal -= 25
LoopBody ==
    /\ loop.pc = "while"
    /\ NeedsTopUp(loop.bal)
    /\ loop' = [loop EXCEPT !.bal = @ - TOPUP_AMOUNT, !.k = @ + 1]
    /\ UNCHANGED <<kind, self, bills, advanced, calls, ncalls, initial, last>>

\* the test fails and control leaves the loop
LoopExit ==
    /\ loop.pc = "while"
    /\ ~NeedsTopUp(loop.bal)
    /\ loop' = [loop EXCEPT !.pc = "done"]
    /\ UNCHANGED <<kind, self, bills, advanced, calls, ncalls, initial, last>>

LoopNext == LoopBody \/ LoopExit

\* the interpreter always runs the next statement
LoopSpec == LoopInit /\ [][LoopNext]_vars /\ WF_vars(LoopNext)

(* ------------------------------ properties ----------------------------- *)
\* the active bill (self.bill is a reference into bills)
ActiveBill == bills[self.bill]

\* whole minutes of a call, a started minute counting as a whole one
MinutesOf(duration) == (duration + 59) \div 60

RECURSIVE SumMinutes(_)
SumMinutes(ds) ==
    IF ds = <<>> THEN 0 ELSE MinutesOf(Head(ds)) + SumMinutes(Tail(ds))

\* number of times amount was added to a bill as a fixed cost
Added(b, amount) ==
    Cardinality({i \in 1..Len(b.fixed_log) : b.fixed_log[i] = amount})

\* days on a scale that orders dates as the calendar does
Ordinal(d) == d.year * 372 + d.month * 31 + d.day

\* the step is a bill_call / a new_month
IsBillCallStep == Len(calls') = Len(calls) + 1
IsNewMonthStep == Len(bills') = Len(bills) + 1

\* C1: for a TermContract, after every new_month call freebies equals 100.
C1_FreebiesResetEveryMonth ==
    (kind = "TERM" /\ last.op = "new_month") => self.freebies = 100

\* C2: for a TermContract, the free minutes plus the billed minutes of the
\* month's bill equal the sum of ceil(duration/60) over the calls billed
\* since new_month, and the free minutes of the bill never exceed 100.
C2_TermMonthTotals ==
    (kind = "TERM" /\ self.bill # 0) =>
        /\ ActiveBill.free_min + ActiveBill.billed_min = SumMinutes(calls)
        /\ ActiveBill.free_min <= 100

C2_Witness ==
    /\ kind = "TERM" /\ self.bill # 0
    /\ Len(calls) = 2
    /\ ActiveBill.free_min > 0
    /\ ActiveBill.billed_min > 0

\* C3: TermContract.bill_call with 0 < freebies < m records the pre-call
\* freebies as free minutes and m minus the pre-call freebies as billed
\* minutes, and leaves freebies at 0.
C3_PartialFreebies ==
    [][(/\ kind = "TERM" /\ IsBillCallStep
        /\ 0 < self.freebies
        /\ self.freebies < MinutesOf(last'.duration)) =>
           /\ bills'[self.bill].free_min
                = bills[self.bill].free_min + self.freebies
           /\ bills'[self.bill].billed_min
                = bills[self.bill].billed_min
                    + MinutesOf(last'.duration) - self.freebies
           /\ self'.freebies = 0]_vars

\* C4: TermContract.new_month adds the 300.00 deposit to the bill iff
\* (month, year) is the (month, year) of the start date, and adds the 20.00
\* monthly fee exactly once in every case.
C4_DepositIffStartMonth ==
    (kind = "TERM" /\ last.op = "new_month") =>
        /\ Added(ActiveBill, 20000) = 1
        /\ Added(ActiveBill, 300000)
             = IF last.month = self.start.month /\ last.year = self.start.year
               THEN 1 ELSE 0
        /\ Len(ActiveBill.fixed_log)
             = Added(ActiveBill, 20000) + Added(ActiveBill, 300000)

C4_Witness ==
    /\ kind = "TERM" /\ last.op = "new_month"
    /\ Len(bills) = 2
    /\ Added(bills[1], 300000) = 1
    /\ Added(bills[2], 300000) = 0
    /\ last.month = self.start.month

\* C5: TermContract.cancel_contract returns the active bill's total cost
\* when the first day of the month most recently advanced to is on or
\* before finish, and the total cost minus 300.00 when it is after finish.
C5_TermCancelAmount ==
    (kind = "TERM" /\ last.op = "cancel_contract") =>
        LET m == advanced[Len(advanced)]
            first == Date(m.year, m.month, 1)
        IN  /\ self.point = first
            /\ last.ret = IF Ordinal(first) <= Ordinal(self.finish)
                          THEN get_cost(ActiveBill)
                          ELSE get_cost(ActiveBill) - 300000

C5_Witness ==
    /\ kind = "TERM" /\ last.op = "cancel_contract"
    /\ Ordinal(self.point) > Ordinal(self.finish)
    /\ last.ret = get_cost(ActiveBill) - 300000

\* C6: after any PrepaidContract.new_month the balance added as a fixed
\* cost to the new bill, which is the balance stored in the contract, is at
\* most -10.00.
C6_PrepaidBalanceAtMost ==
    (kind = "PREPAID" /\ last.op = "new_month") =>
        /\ ActiveBill.fixed_log = <<self.bal>>
        /\ ActiveBill.fixed_cost = self.bal
        /\ self.bal <= -10000

C6_Witness ==
    /\ kind = "PREPAID" /\ last.op = "new_month"
    /\ Len(bills) = 2
    /\ get_cost(bills[1]) > 15000
    /\ self.bal <= -10000

\* C7: PrepaidContract.cancel_contract returns 0 when the active bill's
\* total cost is at most 0 and the total cost when it is greater than 0; the
\* returned amount is never negative.
C7_PrepaidCancelAmount ==
    (kind = "PREPAID" /\ last.op = "cancel_contract") =>
        /\ get_cost(ActiveBill) <= 0 => last.ret = 0
        /\ get_cost(ActiveBill) > 0 => last.ret = get_cost(ActiveBill)
        /\ last.ret >= 0

C7_Witness ==
    /\ kind = "PREPAID" /\ last.op = "cancel_contract"
    /\ get_cost(ActiveBill) < 0
    /\ last.ret = 0

\* C8: for an MTMContract the month's bill carries the 50.00 fee exactly
\* once, its billed minutes equal the sum of ceil(duration/60) over the
\* calls billed since new_month, and it records no free minutes.
C8_MTMMonthTotals ==
    (kind = "MTM" /\ self.bill # 0) =>
        /\ ActiveBill.fixed_log = <<50000>>
        /\ ActiveBill.billed_min = SumMinutes(calls)
        /\ ActiveBill.free_min = 0

C8_Witness ==
    /\ kind = "MTM" /\ self.bill # 0
    /\ calls = <<61, 3000>>
    /\ ActiveBill.billed_min = 52

\* C9: for every contract variant one bill_call of duration d adds exactly
\* ceil(d/60) minutes, billed plus free, to the active bill.
C9_CeilingPerCall ==
    [][IsBillCallStep =>
         LET before == bills[self.bill]
             after == bills'[self.bill]
             m == (after.billed_min + after.free_min)
                    - (before.billed_min + before.free_min)
         IN  /\ 60 * m >= last'.duration
             /\ 60 * (m - 1) < last'.duration
             /\ after.billed_min >= before.billed_min
             /\ after.free_min >= before.free_min]_vars

C9_Witness ==
    /\ last.op = "bill_call" /\ last.duration = 61
    /\ calls = <<61>>
    /\ ActiveBill.billed_min + ActiveBill.free_min = 2

\* the balance res is the balance from after the least number of 25.00
\* top-ups that brings it to -10.00 or below
IsTopUpOf(res, from) ==
    /\ res <= -10000
    /\ res <= from
    /\ (from - res) % 25000 = 0
    /\ res # from => res + 25000 > -10000

\* C10: PrepaidContract.new_month tops up from the negated initial balance
\* on the first call (an initial balance of 30.00 gives a fixed cost of
\* -30.00 on the first bill) and from the previous bill's total cost on
\* every later call.
C10_PrepaidCarryForward ==
    [][(kind = "PREPAID" /\ IsNewMonthStep) =>
         LET from == IF Len(bills) = 0
                     THEN 0 - initial
                     ELSE get_cost(bills[Len(bills)])
             new == bills'[Len(bills')]
         IN  /\ IsTopUpOf(self'.bal, from)
             /\ new.fixed_log = <<self'.bal>>
             /\ (Len(bills) = 0 /\ initial = 30000) =>
                    new.fixed_cost = -30000]_vars

C10_Witness ==
    /\ kind = "PREPAID" /\ last.op = "new_month"
    /\ Len(bills) = 2
    /\ bills[1].billed_min > 0
    /\ self.bal = TopUp(get_cost(bills[1]))
    /\ self.bal # bills[1].fixed_cost

\* C11: for a TermContract starting in January 2023, a January call of 50
\* minutes puts 50 free minutes, no billed minutes and the fixed costs 20.00
\* and 300.00 on January's bill; after new_month for February a single
\* February call of 120 minutes puts 100 free minutes and 20 billed minutes
\* (2.00 at the 0.10 rate) and the 20.00 fee alone on February's bill.
C11_TwoMonthTrace ==
    (/\ kind = "TERM" /\ Live
     /\ self.start.month = 1 /\ self.start.year = 2023
     /\ advanced = <<[month |-> 1, year |-> 2023], [month |-> 2, year |-> 2023]>>
     /\ ncalls = 2
     /\ calls = <<7200>>
     /\ bills[1].free_min + bills[1].billed_min = 50) =>
        /\ bills[1].free_min = 50
        /\ bills[1].billed_min = 0
        /\ bills[1].fixed_log = <<20000, 300000>>
        /\ bills[2].free_min = 100
        /\ bills[2].billed_min = 20
        /\ bills[2].min_rate * bills[2].billed_min = 2000
        /\ bills[2].fixed_log = <<20000>>

\* C12: cancel_contract clears start for every contract variant, and for an
\* MTMContract it returns the active bill's total cost unconditionally.
C12_CancelClearsStart ==
    last.op = "cancel_contract" =>
        /\ self.start = NoneDate
        /\ kind = "MTM" =>
             last.ret = ActiveBill.fixed_cost
                          + ActiveBill.min_rate * ActiveBill.billed_min

C12_Witness ==
    /\ kind = "MTM" /\ last.op = "cancel_contract"
    /\ self.start = NoneDate
    /\ ActiveBill.billed_min > 0
    /\ last.ret > 50000

\* C13: TermContract.bill_call with m = ceil(duration/60): when
\* freebies >= m it decrements freebies by m, records m free minutes and no
\* billed minutes; when freebies = 0 and m > 0 it records m billed minutes
\* and no free minutes and leaves freebies at 0.
C13_CoveredAndExhausted ==
    [][(kind = "TERM" /\ IsBillCallStep) =>
         LET m == MinutesOf(last'.duration)
             before == bills[self.bill]
             after == bills'[self.bill]
         IN  /\ self.freebies >= m =>
                  /\ self'.freebies = self.freebies - m
                  /\ after.free_min = before.free_min + m
                  /\ after.billed_min = before.billed_min
             /\ (self.freebies = 0 /\ m > 0) =>
                  /\ self'.freebies = 0
                  /\ after.billed_min = before.billed_min + m
                  /\ after.free_min = before.free_min]_vars

C13_Witness ==
    /\ kind = "TERM" /\ last.op = "bill_call"
    /\ calls = <<3000, 3000>>
    /\ self.freebies = 0
    /\ ActiveBill.free_min = 100
    /\ ActiveBill.billed_min = 0

\* C14: in every reachable state of a TermContract freebies is between 0
\* and 100, and no bill_call increases it.
C14_FreebiesRange ==
    /\ [](kind = "TERM" => (0 <= self.freebies /\ self.freebies <= 100))
    /\ [][(kind = "TERM" /\ IsBillCallStep) =>
            self'.freebies <= self.freebies]_vars

C14_Witness ==
    /\ kind = "TERM" /\ last.op = "bill_call"
    /\ calls = <<3000, 7200>>
    /\ self.freebies = 0

\* C15: the top-up loop of PrepaidContract.new_month terminates for every
\* starting balance and applies the smallest number k >= 0 of 25.00 top-ups
\* that brings the balance to -10.00 or below: a starting balance already at
\* or below -10.00 is left unchanged, and after at least one top-up the
\* balance is greater than -35.00.
C15_TopUpTerminatesMinimal ==
    /\ <>(loop.pc = "done")
    /\ [](loop.pc = "done" =>
            /\ loop.bal = loop.start - loop.k * 25000
            /\ loop.bal <= -10000
            /\ \A j \in 0..(loop.k - 1) : loop.start - j * 25000 > -10000
            /\ loop.start <= -10000 => (loop.k = 0 /\ loop.bal = loop.start)
            /\ loop.k > 0 => loop.bal > -35000
            /\ loop.bal = TopUp(loop.start))

C15_Witness ==
    /\ loop.pc = "done"
    /\ loop.start = 60000
    /\ loop.k = 3
    /\ loop.bal = -15000

\* months on a scale that orders (month, year) pairs as the calendar does
MonthIndex(m) == m.year * 12 + m.month

\* the months advanced to so far are strictly chronological
Chronological ==
    \A i \in 1..Len(advanced) : \A j \in 1..Len(advanced) :
        i < j => MonthIndex(advanced[i]) < MonthIndex(advanced[j])

\* the bills that carry the deposit
WithDeposit == {i \in 1..Len(bills) : Added(bills[i], 300000) > 0}

\* C16: when a TermContract is advanced through months in strictly
\* chronological order, the 300.00 deposit is added to at most one bill, the
\* bill of the start month, and to no bill of a later month.
C16_DepositAtMostOnce ==
    (kind = "TERM" /\ Chronological) =>
        /\ Cardinality(WithDeposit) <= 1
        /\ \A i \in WithDeposit : Added(bills[i], 300000) = 1
        /\ Live => \A i \in WithDeposit :
                     /\ advanced[i].month = self.start.month
                     /\ advanced[i].year = self.start.year

C16_Witness ==
    /\ kind = "TERM" /\ Live /\ Chronological
    /\ Len(bills) = 2
    /\ WithDeposit = {1}
    /\ advanced[2].month = self.start.month
    /\ advanced[2].year > self.start.year

\* C17: TermContract.cancel_contract does not refund the deposit when the
\* month most recently advanced to is the calendar month containing finish
\* or an earlier month, whatever the day of finish; it refunds 300.00
\* exactly when that month begins strictly after finish.
C17_RefundOnlyAfterFinishMonth ==
    (kind = "TERM" /\ last.op = "cancel_contract") =>
        LET m == advanced[Len(advanced)]
            cost == get_cost(ActiveBill)
        IN  /\ MonthIndex(m) <= MonthIndex(self.finish) => last.ret = cost
            /\ MonthIndex(m) > MonthIndex(self.finish) =>
                 last.ret = cost - 300000

C17_Witness ==
    /\ kind = "TERM" /\ last.op = "cancel_contract"
    /\ self.finish.day > 1
    /\ MonthIndex(advanced[Len(advanced)]) = MonthIndex(self.finish)
    /\ last.ret = get_cost(ActiveBill)

\* C18: for every contract variant, bill_call modifies only the newest
\* bill: a bill bound in an earlier month is changed by no later new_month,
\* bill_call or cancel_contract, and new_month leaves the previous bill as
\* it was.
C18_EarlierBillsUnchanged ==
    [][/\ Len(bills') >= Len(bills)
       /\ \A i \in 1..Len(bills) :
            (i < Len(bills) \/ ~IsBillCallStep) => bills'[i] = bills[i]
       /\ IsBillCallStep =>
            /\ Len(bills') = Len(bills)
            /\ self.bill = Len(bills)]_vars

C18_Witness ==
    /\ Len(bills) = 2
    /\ last.op = "bill_call"
    /\ ncalls = 2
    /\ Len(calls) = 1
    /\ bills[1].billed_min + bills[1].free_min > 0
    /\ bills[2].billed_min + bills[2].free_min > 0

\* C19: cancel_contract changes no state other than start, for every
\* contract variant: the bills and the contract's other attributes are the
\* same before and after, and a second cancel_contract returns the amount
\* the first returned.
C19_CancelFrame ==
    [][last'.op = "cancel_contract" =>
         /\ bills' = bills
         /\ self' = [self EXCEPT !.start = self'.start]
         /\ last.op = "cancel_contract" => last'.ret = last.ret]_vars

C19_Witness ==
    /\ kind = "PREPAID" /\ last.op = "cancel_contract"
    /\ ~Live
    /\ ActiveBill.billed_min > 0
    /\ self.bal = ActiveBill.fixed_cost
    /\ last.ret = 0
====
